---- MODULE Spec2Model ----
(***************************************************************************)
(* webhook-forge: the hook registry (JSONHookRepository), the hook service *)
(* (HookService) and the flag-file side effect, as a state machine.        *)
(*                                                                         *)
(* Strings whose characters the code inspects (flagFile, flagsDir) are     *)
(* sequences of one-character strings; tokens are sequences of bytes;      *)
(* ids, names and descriptions are opaque strings.  A time.Time is a       *)
(* natural number, 0 being the zero time.Time.                             *)
(***************************************************************************)
EXTENDS Integers, Sequences, FiniteSets, TLC

\* ------------------------------------------------------------------ bounds
\* the clock stops the model here: no call that reads time.Now() starts later
MaxTime == 4
\* longest flag_file string put into the store file from outside
MaxPathLen == 4
MaxFileLen == 2
MaxTokenLen == 2

\* ------------------------------------------------------- sequences, helpers
Range(s) == {s[i] : i \in 1..Len(s)}

RECURSIVE SeqsUpTo(_, _)
SeqsUpTo(S, n) ==
    IF n = 0 THEN {<<>>}
    ELSE LET shorter == SeqsUpTo(S, n - 1)
         IN  shorter \cup {Append(s, x) : s \in {t \in shorter : Len(t) = n - 1}, x \in S}

IsPrefix(p, s) == Len(p) <= Len(s) /\ SubSeq(s, 1, Len(p)) = p

\* strings.HasPrefix / strings.Contains on character sequences
HasPrefix(s, p) == IsPrefix(p, s)
Contains_AtStart(s, sub) == IsPrefix(sub, s)
Contains(s, sub) ==
    \E i \in 1..(Len(s) + 1) : i + Len(sub) - 1 <= Len(s) /\ SubSeq(s, i, i + Len(sub) - 1) = sub

\* the orders in which a range over a Go map may visit a set of values
Orders(S) == {q \in [1..Cardinality(S) -> S] : Range(q) = S}

\* ---------------------------------------------------------------- domain
ErrHookNotFound == "hook not found"
ErrInvalidToken == "invalid token"
ErrDisabled == "hook is disabled"
ErrAlreadyExists == "hook with ID already exists"
ErrIDRequired == "hook ID is required"
ErrNameRequired == "hook name is required"
ErrFlagFileRequired == "hook flag file is required"
ErrFlagFileAbs == "flag file path must be relative"
ErrFlagFileTraversal == "flag file path must not contain '..'"
ErrMkdir == "failed to create directory"
ErrCreateFile == "failed to create hooks file"
ErrEncode == "failed to encode hooks"
ErrCreateFlag == "failed to create flag file"
ErrWriteFlag == "failed to write to flag file"
OK == "nil"

Hook(id, name, desc, token, flagFile, enabled, createdAt, updatedAt) ==
    [ID |-> id, Name |-> name, Description |-> desc, Token |-> token,
     FlagFile |-> flagFile, Enabled |-> enabled, CreatedAt |-> createdAt, UpdatedAt |-> updatedAt]

\* ------------------------------------------------------------ path algebra
Slash == "/"
Dot == "."
DotDot == <<Dot, Dot>>

\* strings.Split(s, "/"): the segments between separators
RECURSIVE SplitAcc(_, _, _)
SplitAcc(s, i, cur) ==
    IF i > Len(s) THEN <<cur>>
    ELSE IF s[i] = Slash THEN <<cur>> \o SplitAcc(s, i + 1, <<>>)
    ELSE SplitAcc(s, i + 1, Append(cur, s[i]))
Split(s) == SplitAcc(s, 1, <<>>)

\* filepath.IsAbs on Unix
IsAbs(p) == HasPrefix(p, <<Slash>>)

\* filepath.Clean, on the segments of a path: empty and "." segments are
\* dropped, ".." removes the segment before it, is dropped at the root of a
\* rooted path and is kept at the front of a relative one
RECURSIVE CleanAcc(_, _, _, _)
CleanAcc(segs, i, out, rooted) ==
    IF i > Len(segs) THEN out
    ELSE LET s == segs[i] IN
         IF s = <<>> \/ s = <<Dot>> THEN CleanAcc(segs, i + 1, out, rooted)
         ELSE IF s = DotDot
              THEN IF Len(out) > 0 /\ out[Len(out)] # DotDot
                   THEN CleanAcc(segs, i + 1, SubSeq(out, 1, Len(out) - 1), rooted)
                   ELSE IF rooted THEN CleanAcc(segs, i + 1, out, rooted)
                   ELSE CleanAcc(segs, i + 1, Append(out, s), rooted)
              ELSE CleanAcc(segs, i + 1, Append(out, s), rooted)
\* a cleaned path: whether it is rooted, and its segments
Clean(p) == [rooted |-> IsAbs(p), segs |-> CleanAcc(Split(p), 1, <<>>, IsAbs(p))]

\* filepath.Join(a, b): empty elements are ignored, the rest joined by "/" and cleaned
Join(a, b) ==
    IF a = <<>> THEN Clean(b)
    ELSE IF b = <<>> THEN Clean(a)
    ELSE Clean(a \o <<Slash>> \o b)

\* filepath.Dir of a cleaned path
Dir(cp) == [rooted |-> cp.rooted, segs |-> IF Len(cp.segs) = 0 THEN <<>> ELSE SubSeq(cp.segs, 1, Len(cp.segs) - 1)]

\* cfg.Hooks.FlagsDir, the flags root; it exists as a directory from start
FlagsDir == <<"f">>
FlagsRoot == Clean(FlagsDir)

\* a path lies inside the flags root: below it, not the root itself
InsideRoot(cp) ==
    /\ cp.rooted = FlagsRoot.rooted
    /\ IsPrefix(FlagsRoot.segs, cp.segs)
    /\ Len(cp.segs) > Len(FlagsRoot.segs)

\* ----------------------------------------------------------- hook service
\* a comparison that forgets the length check and compares the common prefix
ConstantTimeCompare_Prefix(x, y) ==
    LET n == IF Len(x) < Len(y) THEN Len(x) ELSE Len(y)
    IN  IF SubSeq(x, 1, n) = SubSeq(y, 1, n) THEN 1 ELSE 0

\* crypto/subtle.ConstantTimeCompare: 1 when the two byte strings have the
\* same length and the OR of the XORs of their bytes is zero, else 0
RECURSIVE XorAcc(_, _, _)
XorAcc(x, y, i) ==
    IF i > Len(x) THEN 0
    ELSE IF x[i] # y[i] THEN 1 ELSE XorAcc(x, y, i + 1)
ConstantTimeCompare(x, y) ==
    IF Len(x) # Len(y) THEN 0
    ELSE IF XorAcc(x, y, 1) = 0 THEN 1 ELSE 0

\* a validation that lets a parent traversal through
validateHook_NoTraversal(hook) ==
    IF hook.ID = "" THEN ErrIDRequired
    ELSE IF hook.Name = "" THEN ErrNameRequired
    ELSE IF hook.FlagFile = <<>> THEN ErrFlagFileRequired
    ELSE IF IsAbs(hook.FlagFile) THEN ErrFlagFileAbs
    ELSE OK

\* HookService.validateHook
validateHook(hook) ==
    IF hook.ID = "" THEN ErrIDRequired
    ELSE IF hook.Name = "" THEN ErrNameRequired
    ELSE IF hook.FlagFile = <<>> THEN ErrFlagFileRequired
    ELSE IF IsAbs(hook.FlagFile) THEN ErrFlagFileAbs
    ELSE IF Contains(hook.FlagFile, DotDot) THEN ErrFlagFileTraversal
    ELSE OK

\* the token compared before the enabled flag is looked at
checkToken_TokenFirst(hook, token) ==
    IF hook.Token # token THEN ErrInvalidToken
    ELSE IF ~hook.Enabled THEN ErrDisabled
    ELSE OK

\* the checks HookService.ValidateHookToken makes on a fetched hook
checkToken(hook, token) ==
    IF ~hook.Enabled THEN ErrDisabled
    ELSE IF ConstantTimeCompare(hook.Token, token) # 1 THEN ErrInvalidToken
    ELSE OK

\* the trigger-time check without the search for ".."
checkFlagFile_NoTraversal(flagFile) ==
    IF IsAbs(flagFile) THEN ErrFlagFileAbs ELSE OK

\* the path checks at the head of HookService.createFlagFile
checkFlagFile(flagFile) ==
    IF IsAbs(flagFile) THEN ErrFlagFileAbs
    ELSE IF Contains(flagFile, DotDot) THEN ErrFlagFileTraversal
    ELSE OK

\* the file createFlagFile opens
flagPath(flagFile) == Join(FlagsDir, flagFile)

\* ------------------------------------------------------------ store file
\* the store file: a JSON list of hooks ("list"), a file of zero bytes
\* ("empty"), or what a failed write left behind ("partial")
FileList(recs) == [kind |-> "list", recs |-> recs]
FileEmpty == [kind |-> "empty", recs |-> <<>>]
FilePartial == [kind |-> "partial", recs |-> <<>>]
\* no store file on disk: os.Stat reports that it does not exist
FileMissing == [kind |-> "missing", recs |-> <<>>]

\* JSONHookRepository.load: the map built from the decoded list, a later
\* entry replacing an earlier one with the same id
RECURSIVE loadAcc(_, _, _)
loadAcc(recs, i, m) ==
    IF i > Len(recs) THEN m
    ELSE loadAcc(recs, i + 1,
                 [k \in DOMAIN m \cup {recs[i].ID} |-> IF k = recs[i].ID THEN recs[i] ELSE m[k]])
\* a load that keeps the first entry of an id
load_FirstWins(f) == loadAcc([i \in 1..Len(f.recs) |-> f.recs[Len(f.recs) + 1 - i]], 1, <<>>)

load(f) == loadAcc(f.recs, 1, <<>>)

\* the values of the map, as a set
MapValues(m) == {m[k] : k \in DOMAIN m}
\* the lists JSONHookRepository.save may encode: the values of the map in
\* the order the range over the map happens to take
saveLists(m) == {[i \in 1..Cardinality(DOMAIN m) |-> m[q[i]]] : q \in Orders(DOMAIN m)}

\* the hooks a load of the store file would give; a partial file does not decode
Decodes(f) == f.kind \in {"list", "empty"}
FileHooks(f) == Range(f.recs)

\* r.hooks[hook.ID] = hook
MapPut(m, hook) == [k \in DOMAIN m \cup {hook.ID} |-> IF k = hook.ID THEN hook ELSE m[k]]
\* delete(r.hooks, id)
MapDelete(m, id) == [k \in DOMAIN m \ {id} |-> m[k]]
\* _, ok := r.hooks[id]
Has(m, id) == id \in DOMAIN m

\* a Create that inserts without looking for the id
Create_Overwrite(m, hook, t) ==
    [err |-> OK, hooks |-> MapPut(m, [hook EXCEPT !.CreatedAt = t, !.UpdatedAt = t]), save |-> TRUE]

\* an insertion that leaves UpdatedAt as the caller set it
CreateInsert_NoUpdatedAt(m, hook, t) == MapPut(m, [hook EXCEPT !.CreatedAt = t])

\* the statements of Create after its check: both timestamps, r.hooks[hook.ID] = hook
CreateInsert(m, hook, t) == MapPut(m, [hook EXCEPT !.CreatedAt = t, !.UpdatedAt = t])

\* JSONHookRepository.Create on the map m at time t: the error before save,
\* the map afterwards, and whether save is reached
Create(m, hook, t) ==
    IF Has(m, hook.ID)
    THEN [err |-> ErrAlreadyExists, hooks |-> m, save |-> FALSE]
    ELSE [err |-> OK, hooks |-> CreateInsert(m, hook, t), save |-> TRUE]

\* a replacement that keeps the CreatedAt of the stored record
UpdateReplace_KeepCreatedAt(m, hook, t) ==
    MapPut(m, [hook EXCEPT !.UpdatedAt = t,
                           !.CreatedAt = IF Has(m, hook.ID) THEN m[hook.ID].CreatedAt ELSE @])

\* the statements of Update after its check: UpdatedAt, r.hooks[hook.ID] = hook
UpdateReplace(m, hook, t) == MapPut(m, [hook EXCEPT !.UpdatedAt = t])

\* JSONHookRepository.Update
Update(m, hook, t) ==
    IF ~Has(m, hook.ID)
    THEN [err |-> ErrHookNotFound, hooks |-> m, save |-> FALSE]
    ELSE [err |-> OK, hooks |-> UpdateReplace(m, hook, t), save |-> TRUE]

\* a removal that removes nothing
DeleteRemove_Keep(m, id) == m

\* the statement of Delete after its check: delete(r.hooks, id)
DeleteRemove(m, id) == MapDelete(m, id)

\* JSONHookRepository.Delete
Delete(m, id) ==
    IF ~Has(m, id)
    THEN [err |-> ErrHookNotFound, hooks |-> m, save |-> FALSE]
    ELSE [err |-> OK, hooks |-> DeleteRemove(m, id), save |-> TRUE]

\* ------------------------------------------------------------------ state
Workers == {"w1", "w2"}
NoWorker == "none"

VARIABLES
    hooks,   \* JSONHookRepository.hooks: id -> Hook
    file,    \* the content of JSONHookRepository.filePath
    flags,   \* the files below (or, were it possible, outside) the flags root
    now,     \* the next reading of time.Now()
    mu,      \* JSONHookRepository.mu: the writer and the readers holding it
    pc,      \* where each worker is in its call
    call,    \* the call each worker is making or has made last
    res,     \* the error the last finished call of each worker returned
    hk,      \* the hooks a worker holds: <<>> for nil, <<hook>>, or the slice of GetAll
    req,     \* the HTTP request each worker serves or has served last
    build    \* the wiring of cmd/server/main.go that runs

vars == <<hooks, file, flags, now, mu, pc, call, res, hk, req, build>>

Idle(w) == pc[w] \in {"idle", "done"}

\* calls that will read time.Now() and have not yet done so
WillReadClock(w) == pc[w] \in {"Create_lock", "Create_cs", "Create_put",
                               "Update_lock", "Update_cs", "Update_put",
                               "V_rlock", "V_read", "T_rlock", "T_read", "T_write"}
                    /\ call[w].op # "ValidateHookToken"
ClockLeft == now + Cardinality({w \in Workers : WillReadClock(w)}) < MaxTime

Call(op, id, token, hook) == [op |-> op, id |-> id, token |-> token, hook |-> hook]
NoCall == Call("none", "", <<>>, <<>>)

\* sync.RWMutex
\* a Lock that does not wait for the readers
CanLock_IgnoreReaders == mu.writer = NoWorker
CanLock == mu.writer = NoWorker /\ mu.readers = {}
CanRLock == mu.writer = NoWorker
Lock(w) == [mu EXCEPT !.writer = w]
Unlock(w) == [mu EXCEPT !.writer = NoWorker]
RLock(w) == [mu EXCEPT !.readers = @ \cup {w}]
RUnlock(w) == [mu EXCEPT !.readers = @ \ {w}]

\* ------------------------------------------------------- flags directory
\* a file of the flags directory: its cleaned path and its lines, each
\* "Hook triggered at <time>" and given by its time (no line: the file was
\* truncated and not written)
FlagEntry(cp, lines) == [path |-> cp, lines |-> lines]
\* time.Format(time.RFC3339): the time without its fraction of a second, the
\* clock ticking twice a second
RFC3339(t) == t \div 2
IsFile(fs, cp) == \E f \in fs : f.path = cp
\* directories: the flags root and what is above it, and what lies above a file
IsDirectory(fs, cp) ==
    \/ \A i \in 1..Len(cp.segs) : cp.segs[i] = DotDot
    \/ cp.rooted = FlagsRoot.rooted /\ IsPrefix(cp.segs, FlagsRoot.segs)
    \/ \E f \in fs : f.path.rooted = cp.rooted /\ IsPrefix(cp.segs, f.path.segs) /\ cp # f.path
\* os.MkdirAll(dir) fails when dir, or a directory on the way to it, is a file
MkdirAllFails(fs, dir) ==
    \E n \in 0..Len(dir.segs) : IsFile(fs, [rooted |-> dir.rooted, segs |-> SubSeq(dir.segs, 1, n)])
\* os.Create(path) fails when path is a directory
CreateFails(fs, cp) == IsDirectory(fs, cp)
\* a write that opens the file for appending instead of truncating it
WriteFlag_Append(fs, cp, lines) ==
    {f \in fs : f.path # cp}
    \cup {FlagEntry(cp, (IF \E f \in fs : f.path = cp
                          THEN (CHOOSE f \in fs : f.path = cp).lines ELSE <<>>) \o lines)}

\* os.Create(path), which truncates, followed by the lines written
WriteFlag(fs, cp, lines) == {f \in fs : f.path # cp} \cup {FlagEntry(cp, lines)}

\* what the disk may do to a write
DiskOutcomes == {"ok", "mkdir", "write"}

\* HookService.createFlagFile: the error returned, the flags directory after
\* it, and whether time.Now() was read (it is read to format the line)
createFlagFile(fs, hook, t, disk) ==
    LET target == flagPath(hook.FlagFile) IN
    IF checkFlagFile(hook.FlagFile) # OK
    THEN [err |-> checkFlagFile(hook.FlagFile), flags |-> fs, clock |-> FALSE]
    ELSE IF disk = "mkdir" \/ MkdirAllFails(fs, Dir(target))
    THEN [err |-> ErrMkdir, flags |-> fs, clock |-> FALSE]
    ELSE IF CreateFails(fs, target)
    THEN [err |-> ErrCreateFlag, flags |-> fs, clock |-> FALSE]
    ELSE IF disk = "write"
    THEN [err |-> ErrWriteFlag, flags |-> WriteFlag(fs, target, <<>>), clock |-> TRUE]
    ELSE [err |-> OK, flags |-> WriteFlag(fs, target, <<RFC3339(t)>>), clock |-> TRUE]

\* JSONHookRepository.save: the error returned and the store file after it
save(f, m, list, disk) ==
    IF disk = "mkdir" THEN [err |-> ErrMkdir, file |-> f]
    ELSE IF disk = "create" THEN [err |-> ErrCreateFile, file |-> f]
    ELSE IF disk = "write" THEN [err |-> ErrEncode, file |-> FilePartial]
    ELSE [err |-> OK, file |-> FileList(list)]
SaveOutcomes == {"ok", "mkdir", "create", "write"}

ErrLoad == "failed to load hooks"
\* NewJSONHookRepository on the store file f: a missing file is written at
\* once as an empty list, an existing one is loaded
NewJSONHookRepository(f, disk) ==
    IF f.kind = "missing"
    THEN LET s == save(f, <<>>, <<>>, disk) IN [err |-> s.err, file |-> s.file, hooks |-> <<>>]
    ELSE IF f.kind = "partial" THEN [err |-> ErrLoad, file |-> f, hooks |-> <<>>]
    ELSE [err |-> OK, file |-> f, hooks |-> load(f)]

\* return r.save(), and the deferred r.mu.Unlock()
SaveAndUnlock(w, at) ==
    /\ pc[w] = at
    /\ \E disk \in SaveOutcomes, list \in saveLists(hooks) :
         LET s == save(file, hooks, list, disk) IN
         /\ file' = s.file
         /\ res' = [res EXCEPT ![w] = s.err]
    /\ mu' = Unlock(w)
    /\ pc' = [pc EXCEPT ![w] = "done"]
    /\ UNCHANGED <<hooks, flags, now, call, hk, req, build>>

\* ------------------------------------------------------ registry: Create
\* HookService.CreateHook: validate, then JSONHookRepository.Create
EnterCreateHook(w, hook) ==
    /\ call' = [call EXCEPT ![w] = Call("CreateHook", hook.ID, <<>>, <<hook>>)]
    /\ hk' = [hk EXCEPT ![w] = <<>>]
    /\ IF validateHook(hook) # OK
       THEN pc' = [pc EXCEPT ![w] = "done"] /\ res' = [res EXCEPT ![w] = validateHook(hook)]
       ELSE pc' = [pc EXCEPT ![w] = "Create_lock"] /\ res' = [res EXCEPT ![w] = OK]

\* a caller of the service calls CreateHook
CallCreateHook(w, hook) ==
    /\ Idle(w) /\ ClockLeft
    /\ EnterCreateHook(w, hook)
    /\ UNCHANGED <<hooks, file, flags, now, mu, req, build>>

\* r.mu.Lock()
CreateLock(w) ==
    /\ pc[w] = "Create_lock" /\ CanLock
    /\ mu' = Lock(w)
    /\ pc' = [pc EXCEPT ![w] = "Create_cs"]
    /\ UNCHANGED <<hooks, file, flags, now, call, res, hk, req, build>>

\* a duplicate check that returns without releasing the lock
CreateBody_NoUnlock(w) ==
    /\ pc[w] = "Create_cs"
    /\ LET r == Create(hooks, call[w].hook[1], now) IN
       /\ res' = [res EXCEPT ![w] = r.err]
       /\ IF r.save
          THEN pc' = [pc EXCEPT ![w] = "Create_put"]
          ELSE pc' = [pc EXCEPT ![w] = "done"]
    /\ UNCHANGED <<hooks, file, flags, now, mu, call, hk, req, build>>

\* the duplicate check: a present id returns at once (the deferred Unlock)
CreateBody(w) ==
    /\ pc[w] = "Create_cs"
    /\ LET r == Create(hooks, call[w].hook[1], now) IN
       /\ res' = [res EXCEPT ![w] = r.err]
       /\ IF r.save
          THEN pc' = [pc EXCEPT ![w] = "Create_put"] /\ mu' = mu
          ELSE pc' = [pc EXCEPT ![w] = "done"] /\ mu' = Unlock(w)
    /\ UNCHANGED <<hooks, file, flags, now, call, hk, req, build>>

\* the timestamps and the insertion
CreatePut(w) ==
    /\ pc[w] = "Create_put"
    /\ hooks' = CreateInsert(hooks, call[w].hook[1], now)
    /\ now' = now + 1
    /\ pc' = [pc EXCEPT ![w] = "Create_save"]
    /\ UNCHANGED <<file, flags, mu, call, res, hk, req, build>>

CreateSave(w) == SaveAndUnlock(w, "Create_save")

\* ------------------------------------------------------ registry: Update
\* HookService.UpdateHook: validate, then JSONHookRepository.Update
EnterUpdateHook(w, hook) ==
    /\ call' = [call EXCEPT ![w] = Call("UpdateHook", hook.ID, <<>>, <<hook>>)]
    /\ hk' = [hk EXCEPT ![w] = <<>>]
    /\ IF validateHook(hook) # OK
       THEN pc' = [pc EXCEPT ![w] = "done"] /\ res' = [res EXCEPT ![w] = validateHook(hook)]
       ELSE pc' = [pc EXCEPT ![w] = "Update_lock"] /\ res' = [res EXCEPT ![w] = OK]

\* a caller of the service calls UpdateHook
CallUpdateHook(w, hook) ==
    /\ Idle(w) /\ ClockLeft
    /\ EnterUpdateHook(w, hook)
    /\ UNCHANGED <<hooks, file, flags, now, mu, req, build>>

UpdateLock(w) ==
    /\ pc[w] = "Update_lock" /\ CanLock
    /\ mu' = Lock(w)
    /\ pc' = [pc EXCEPT ![w] = "Update_cs"]
    /\ UNCHANGED <<hooks, file, flags, now, call, res, hk, req, build>>

\* the existence check: an absent id returns at once
UpdateBody(w) ==
    /\ pc[w] = "Update_cs"
    /\ LET r == Update(hooks, call[w].hook[1], now) IN
       /\ res' = [res EXCEPT ![w] = r.err]
       /\ IF r.save
          THEN pc' = [pc EXCEPT ![w] = "Update_put"] /\ mu' = mu
          ELSE pc' = [pc EXCEPT ![w] = "done"] /\ mu' = Unlock(w)
    /\ UNCHANGED <<hooks, file, flags, now, call, hk, req, build>>

\* the timestamp and the replacement
UpdatePut(w) ==
    /\ pc[w] = "Update_put"
    /\ hooks' = UpdateReplace(hooks, call[w].hook[1], now)
    /\ now' = now + 1
    /\ pc' = [pc EXCEPT ![w] = "Update_save"]
    /\ UNCHANGED <<file, flags, mu, call, res, hk, req, build>>

UpdateSave(w) == SaveAndUnlock(w, "Update_save")

\* ------------------------------------------------------ registry: Delete
\* HookService.DeleteHook: JSONHookRepository.Delete
EnterDeleteHook(w, id) ==
    /\ call' = [call EXCEPT ![w] = Call("DeleteHook", id, <<>>, <<>>)]
    /\ hk' = [hk EXCEPT ![w] = <<>>]
    /\ pc' = [pc EXCEPT ![w] = "Delete_lock"]
    /\ res' = [res EXCEPT ![w] = OK]

\* a caller of the service calls DeleteHook
CallDeleteHook(w, id) ==
    /\ Idle(w)
    /\ EnterDeleteHook(w, id)
    /\ UNCHANGED <<hooks, file, flags, now, mu, req, build>>

DeleteLock(w) ==
    /\ pc[w] = "Delete_lock" /\ CanLock
    /\ mu' = Lock(w)
    /\ pc' = [pc EXCEPT ![w] = "Delete_cs"]
    /\ UNCHANGED <<hooks, file, flags, now, call, res, hk, req, build>>

\* the existence check: an absent id returns at once
DeleteBody(w) ==
    /\ pc[w] = "Delete_cs"
    /\ LET r == Delete(hooks, call[w].id) IN
       /\ res' = [res EXCEPT ![w] = r.err]
       /\ IF r.save
          THEN pc' = [pc EXCEPT ![w] = "Delete_put"] /\ mu' = mu
          ELSE pc' = [pc EXCEPT ![w] = "done"] /\ mu' = Unlock(w)
    /\ UNCHANGED <<hooks, file, flags, now, call, hk, req, build>>

\* the removal
DeletePut(w) ==
    /\ pc[w] = "Delete_put"
    /\ hooks' = DeleteRemove(hooks, call[w].id)
    /\ pc' = [pc EXCEPT ![w] = "Delete_save"]
    /\ UNCHANGED <<file, flags, now, mu, call, res, hk, req, build>>

DeleteSave(w) == SaveAndUnlock(w, "Delete_save")

\* ----------------------------------------------------- registry: GetByID
\* r.mu.RLock()
AcquireRLock(w, at, next) ==
    /\ pc[w] = at /\ CanRLock
    /\ mu' = RLock(w)
    /\ pc' = [pc EXCEPT ![w] = next]
    /\ UNCHANGED <<hooks, file, flags, now, call, res, hk, req, build>>

\* JSONHookRepository.GetByID under the read lock: the hook and the error
GetByID(m, id) ==
    IF ~Has(m, id) THEN [hook |-> <<>>, err |-> ErrHookNotFound]
    ELSE [hook |-> <<m[id]>>, err |-> OK]

\* HookService.GetHook
CallGetHook(w, id) ==
    /\ Idle(w)
    /\ call' = [call EXCEPT ![w] = Call("GetHook", id, <<>>, <<>>)]
    /\ hk' = [hk EXCEPT ![w] = <<>>]
    /\ pc' = [pc EXCEPT ![w] = "G_rlock"]
    /\ res' = [res EXCEPT ![w] = OK]
    /\ UNCHANGED <<hooks, file, flags, now, mu, req, build>>

GetRLock(w) == AcquireRLock(w, "G_rlock", "G_read")

GetRead(w) ==
    /\ pc[w] = "G_read"
    /\ LET g == GetByID(hooks, call[w].id) IN
       /\ hk' = [hk EXCEPT ![w] = g.hook]
       /\ res' = [res EXCEPT ![w] = g.err]
    /\ mu' = RUnlock(w)
    /\ pc' = [pc EXCEPT ![w] = "done"]
    /\ UNCHANGED <<hooks, file, flags, now, call, req, build>>

\* ------------------------------------------------------ registry: GetAll
\* HookService.GetAllHooks
CallGetAllHooks(w) ==
    /\ Idle(w)
    /\ call' = [call EXCEPT ![w] = Call("GetAllHooks", "", <<>>, <<>>)]
    /\ hk' = [hk EXCEPT ![w] = <<>>]
    /\ pc' = [pc EXCEPT ![w] = "A_rlock"]
    /\ res' = [res EXCEPT ![w] = OK]
    /\ UNCHANGED <<hooks, file, flags, now, mu, req, build>>

GetAllRLock(w) == AcquireRLock(w, "A_rlock", "A_read")

\* JSONHookRepository.GetAll: the records in the order the range over the map takes
GetAllRead(w) ==
    /\ pc[w] = "A_read"
    /\ \E list \in saveLists(hooks) : hk' = [hk EXCEPT ![w] = list]
    /\ mu' = RUnlock(w)
    /\ pc' = [pc EXCEPT ![w] = "done"]
    /\ UNCHANGED <<hooks, file, flags, now, call, res, req, build>>

\* ------------------------------------ service: ValidateHookToken, TriggerHook
\* both calls start with the token validation
EnterValidation(w, op, id, token) ==
    /\ call' = [call EXCEPT ![w] = Call(op, id, token, <<>>)]
    /\ hk' = [hk EXCEPT ![w] = <<>>]
    /\ pc' = [pc EXCEPT ![w] = "V_rlock"]
    /\ res' = [res EXCEPT ![w] = OK]

CallValidateHookToken(w, id, token) ==
    /\ Idle(w)
    /\ EnterValidation(w, "ValidateHookToken", id, token)
    /\ UNCHANGED <<hooks, file, flags, now, mu, req, build>>

CallTriggerHook(w, id, token) ==
    /\ Idle(w) /\ ClockLeft
    /\ EnterValidation(w, "TriggerHook", id, token)
    /\ UNCHANGED <<hooks, file, flags, now, mu, req, build>>

ValidateRLock(w) == AcquireRLock(w, "V_rlock", "V_read")

\* HookService.ValidateHookToken: GetByID, then the enabled and token checks
ValidateHookToken(m, id, token) ==
    LET g == GetByID(m, id) IN
    IF g.err # OK THEN g.err ELSE checkToken(g.hook[1], token)

\* a TriggerHook that goes on to the flag file whatever the validation returned
ValidateRead_GoesOn(w) ==
    /\ pc[w] = "V_read"
    /\ LET err == ValidateHookToken(hooks, call[w].id, call[w].token) IN
       /\ res' = [res EXCEPT ![w] = err]
       /\ pc' = [pc EXCEPT ![w] = IF call[w].op = "TriggerHook" THEN "T_rlock" ELSE "done"]
    /\ mu' = RUnlock(w)
    /\ UNCHANGED <<hooks, file, flags, now, call, hk, req, build>>

\* the fetch and the checks of ValidateHookToken; TriggerHook goes on when they pass
ValidateRead(w) ==
    /\ pc[w] = "V_read"
    /\ LET err == ValidateHookToken(hooks, call[w].id, call[w].token) IN
       /\ res' = [res EXCEPT ![w] = err]
       /\ pc' = [pc EXCEPT ![w] = IF err = OK /\ call[w].op = "TriggerHook" THEN "T_rlock" ELSE "done"]
    /\ mu' = RUnlock(w)
    /\ UNCHANGED <<hooks, file, flags, now, call, hk, req, build>>

TriggerRLock(w) == AcquireRLock(w, "T_rlock", "T_read")

\* the second GetByID of TriggerHook
TriggerRead(w) ==
    /\ pc[w] = "T_read"
    /\ LET g == GetByID(hooks, call[w].id) IN
       /\ hk' = [hk EXCEPT ![w] = g.hook]
       /\ res' = [res EXCEPT ![w] = g.err]
       /\ pc' = [pc EXCEPT ![w] = IF g.err = OK THEN "T_write" ELSE "done"]
    /\ mu' = RUnlock(w)
    /\ UNCHANGED <<hooks, file, flags, now, call, req, build>>

\* a trigger that fires once: it also disables the hook it triggered
TriggerWrite_OneShot(w) ==
    /\ pc[w] = "T_write"
    /\ \E disk \in DiskOutcomes :
         LET c == createFlagFile(flags, hk[w][1], now, disk) IN
         /\ flags' = c.flags
         /\ res' = [res EXCEPT ![w] = c.err]
         /\ now' = IF c.clock THEN now + 1 ELSE now
    /\ hooks' = IF Has(hooks, call[w].id)
                THEN [hooks EXCEPT ![call[w].id].Enabled = FALSE] ELSE hooks
    /\ pc' = [pc EXCEPT ![w] = "done"]
    /\ UNCHANGED <<file, mu, call, hk, req, build>>

\* s.createFlagFile(hook), outside every lock
TriggerWrite(w) ==
    /\ pc[w] = "T_write"
    /\ \E disk \in DiskOutcomes :
         LET c == createFlagFile(flags, hk[w][1], now, disk) IN
         /\ flags' = c.flags
         /\ res' = [res EXCEPT ![w] = c.err]
         /\ now' = IF c.clock THEN now + 1 ELSE now
    /\ pc' = [pc EXCEPT ![w] = "done"]
    /\ UNCHANGED <<hooks, file, mu, call, hk, req, build>>

\* ------------------------------------------------------------------ inputs
HookIds == {"h1", "h2"}
TokenA == <<1>>
TokenB == <<1, 2>>
Tokens == {TokenA, TokenB}
\* tokens a caller may supply: the stored ones, a wrong one, none
SuppliedTokens == Tokens \cup {<<2>>, <<>>}
\* name, description and flag_file of a payload
BodyA == <<"n1", "d1", <<"a">>>>
BodyB == <<"n2", "", <<"a", Slash, "b">>>>
Bodies == {BodyA, BodyB}
\* flag_file values validateHook rejects: ../a, /a and the empty string
BadFlagFiles == {<<Dot, Dot, Slash, "a">>, <<Slash, "a">>, <<>>}
\* created_at of a payload: absent (the zero time) or a time before start
PayloadTimes == {0, 1}

\* updated_at of a payload is the time the handler put there before the call
Payloads(ids, bodies, tokens, enableds, times) ==
    {Hook(id, b[1], b[2], t, b[3], en, c, 1) :
        id \in ids, b \in bodies, t \in tokens, en \in enableds, c \in times}
BadPayloads == {Hook("h1", "n1", "d1", TokenA, ff, TRUE, 0, 1) : ff \in BadFlagFiles}

Inputs(payloads, ids, tokens) == [hooks |-> payloads, ids |-> ids, tokens |-> tokens]

\* one step of worker w, its calls taking their arguments from the sets in
WorkerStep(w, in) ==
    \/ \E hook \in in.hooks : CallCreateHook(w, hook)
    \/ CreateLock(w)
    \/ CreateBody(w)
    \/ CreatePut(w)
    \/ CreateSave(w)
    \/ \E hook \in in.hooks : CallUpdateHook(w, hook)
    \/ UpdateLock(w)
    \/ UpdateBody(w)
    \/ UpdatePut(w)
    \/ UpdateSave(w)
    \/ \E id \in in.ids : CallDeleteHook(w, id)
    \/ DeleteLock(w)
    \/ DeleteBody(w)
    \/ DeletePut(w)
    \/ DeleteSave(w)
    \/ \E id \in in.ids : CallGetHook(w, id)
    \/ GetRLock(w)
    \/ GetRead(w)
    \/ CallGetAllHooks(w)
    \/ GetAllRLock(w)
    \/ GetAllRead(w)
    \/ \E id \in in.ids, token \in in.tokens : CallValidateHookToken(w, id, token)
    \/ \E id \in in.ids, token \in in.tokens : CallTriggerHook(w, id, token)
    \/ ValidateRLock(w)
    \/ ValidateRead(w)
    \/ TriggerRLock(w)
    \/ TriggerRead(w)
    \/ TriggerWrite(w)

\* a hook that an earlier run of the server stored
StartHook == Hook("h1", "n1", "d1", TokenA, <<"a">>, TRUE, 1, 1)
\* the first reading of the clock: later than the times of the earlier run
StartTime == StartHook.UpdatedAt + 1

\* the wirings of cmd/server/main.go: the handlers registered as they are
\* and checking the admin token themselves, or behind the two middlewares
Builds == {"RegisterRoutes", "Middleware"}

\* an HTTP request as the handlers see it: the route the mux chose, the {id}
\* of the path, the token of the query, the X-Admin-Token and Authorization
\* headers, the decoded body (no hook when decoding fails), and the status
\* a guard or a handler wrote before any service call (0: none yet)
Request(route, id, token, adminToken, auth, body) ==
    [route |-> route, id |-> id, token |-> token, adminToken |-> adminToken,
     auth |-> auth, body |-> body, status |-> 0]

\* no request yet
NoReq == Request("none", "", <<>>, <<>>, <<>>, <<>>)

\* the server after start on the store file f, wired as b: the registry was
\* constructed without error, the flags directory is empty, nothing is served
InitBuild(f, b, t) ==
    /\ \E disk \in SaveOutcomes :
         LET r == NewJSONHookRepository(f, disk) IN
         /\ r.err = OK
         /\ file = r.file
         /\ hooks = r.hooks
    /\ build = b
    /\ req = [w \in Workers |-> NoReq]
    /\ flags = {}
    /\ now = t
    /\ mu = [writer |-> NoWorker, readers |-> {}]
    /\ pc = [w \in Workers |-> "idle"]
    /\ call = [w \in Workers |-> NoCall]
    /\ res = [w \in Workers |-> OK]
    /\ hk = [w \in Workers |-> <<>>]

InitWith(f) == InitBuild(f, "Middleware", StartTime)

\* the store files an earlier run can have left: none (written as the empty
\* list at once), an empty file, or the list of its hooks
SavedFiles == {FileMissing, FileEmpty, FileList(<<StartHook>>)}

\* ------------------------------------------- one worker, every kind of call
SeqInputs ==
    Inputs(Payloads({"h1"}, Bodies, Tokens, BOOLEAN, PayloadTimes)
             \cup Payloads({"h2"}, {BodyB}, {TokenA}, {TRUE}, {0}) \cup BadPayloads,
           HookIds, SuppliedTokens)
Init == \E f \in SavedFiles : InitWith(f)
Next == WorkerStep("w1", SeqInputs)
Spec == Init /\ [][Next]_vars

\* ------------------------ one worker, a store file that was edited by hand
\* the characters of a flag_file put into the store file from outside
PathChars == {"a", Dot, Slash}
\* a hook of the edited file: any string as its flag_file
TamperedHook(ff) == Hook("h1", "n1", "d1", TokenA, ff, TRUE, 1, 1)
TamperedFiles == {FileList(<<TamperedHook(ff)>>) : ff \in SeqsUpTo(PathChars, MaxPathLen)}
TamperInputs ==
    Inputs(Payloads({"h2"}, {BodyB}, {TokenA}, {TRUE}, {0}), HookIds, {TokenA})
InitTamper == \E f \in TamperedFiles : InitWith(f)
NextTamper == WorkerStep("w1", TamperInputs)
TamperSpec == InitTamper /\ [][NextTamper]_vars

\* ------------------- one worker late in the day, every payload to validate
\* the payloads of CreateHook and UpdateHook: every flag_file string, and an
\* id or a name that is missing
ValidatePayloads ==
    {Hook("h1", "n1", "d1", TokenA, ff, TRUE, 0, 1) : ff \in SeqsUpTo(PathChars, MaxPathLen)}
    \cup {Hook(id, name, "d1", TokenA, <<"a">>, TRUE, 0, 1) : id \in {"", "h1"}, name \in {"", "n1"}}
ValidateInputs == Inputs(ValidatePayloads, {"h1"}, {TokenA})
InitValidate ==
    \E f \in {FileMissing, FileList(<<StartHook>>)} : InitBuild(f, "Middleware", MaxTime - 1)
NextValidate == WorkerStep("w1", ValidateInputs)
ValidateSpec == InitValidate /\ [][NextValidate]_vars

\* ------------------------------------------- two workers, calls on one hook
ConcInputs ==
    Inputs(Payloads({"h1"}, {BodyA}, {TokenA}, BOOLEAN, {0}) \cup Payloads({"h1"}, {BodyB}, {TokenB}, {TRUE}, {0}),
           {"h1"}, {TokenA})
InitConc == InitWith(FileList(<<StartHook>>))
NextConc == \E w \in Workers : WorkerStep(w, ConcInputs)
ConcSpec == InitConc /\ [][NextConc]_vars

\* ================================================================ claims
\* worker w has returned from a call of one of the kinds in ops
Returned(w, ops) == pc[w] = "done" /\ call[w].op \in ops
\* worker w takes the step that ends the body of Create, Update, Delete: the
\* check that returns at once, or the statements after a check that passed
BodyEnds(w, op) ==
    \/ pc[w] = op \o "_cs" /\ pc'[w] = "done"
    \/ pc[w] = op \o "_put" /\ pc'[w] # pc[w]
CreateStep(w) == BodyEnds(w, "Create")
UpdateStep(w) == BodyEnds(w, "Update")
DeleteStep(w) == BodyEnds(w, "Delete")

\* C1: the registry holds at most one hook per id in every reachable state; a
\* Create of an id that is present returns the already-exists error and
\* leaves the stored record (all fields, both timestamps), the map and the
\* file as they were, so GetByID(id) still returns the first record.
C1_OneHookPerId ==
    /\ [](\A id \in HookIds : Cardinality({k \in DOMAIN hooks : hooks[k].ID = id}) <= 1)
    /\ [][\A w \in Workers :
            (CreateStep(w) /\ Has(hooks, call[w].id))
            => /\ res'[w] = ErrAlreadyExists
               /\ pc'[w] = "done"
               /\ GetByID(hooks', call[w].id) = GetByID(hooks, call[w].id)
               /\ hooks' = hooks /\ file' = file]_vars
\* a Create of a present id, with another token than the stored one, has failed
C1_Witness ==
    \E w \in Workers :
        /\ Returned(w, {"CreateHook"}) /\ res[w] = ErrAlreadyExists
        /\ Has(hooks, call[w].id)
        /\ hooks[call[w].id].Token # call[w].hook[1].Token

\* C2: every file in the flags directory lies inside the flags root, whatever
\* flag_file strings the store file held at start: TriggerHook creates or
\* truncates no file outside the root.
C2_FlagsInsideRoot == \A f \in flags : InsideRoot(f.path)
\* a trigger of a stored hook whose flag_file would leave the root was refused
C2_Witness ==
    \E w \in Workers :
        /\ Returned(w, {"TriggerHook"}) /\ res[w] = ErrFlagFileTraversal
        /\ Has(hooks, call[w].id)
        /\ ~InsideRoot(flagPath(hooks[call[w].id].FlagFile))
        /\ ~IsDirectory(flags, flagPath(hooks[call[w].id].FlagFile))

\* C3: for an existing enabled hook, ValidateHookToken and TriggerHook called
\* with a token that differs from the stored one return the invalid-token
\* error; they return nil only when the supplied token equals the stored one.
C3_WrongTokenRejected ==
    \A w \in Workers :
        (/\ Returned(w, {"ValidateHookToken", "TriggerHook"})
         /\ Has(hooks, call[w].id) /\ hooks[call[w].id].Enabled)
        => /\ hooks[call[w].id].Token # call[w].token => res[w] = ErrInvalidToken
           /\ res[w] = OK => hooks[call[w].id].Token = call[w].token
\* a trigger with a token that extends the stored token was refused
C3_Witness ==
    \E w \in Workers :
        /\ Returned(w, {"TriggerHook"}) /\ res[w] = ErrInvalidToken
        /\ Has(hooks, call[w].id) /\ hooks[call[w].id].Enabled
        /\ hooks[call[w].id].Token = TokenA /\ call[w].token = TokenB

\* C4: for a hook whose Enabled is false, ValidateHookToken and TriggerHook
\* return the disabled error for every supplied token, right or wrong; for an
\* id that is not in the registry they return not-found.
C4_DisabledBeforeToken ==
    \A w \in Workers :
        Returned(w, {"ValidateHookToken", "TriggerHook"})
        => /\ ~Has(hooks, call[w].id) => res[w] = ErrHookNotFound
           /\ (Has(hooks, call[w].id) /\ ~hooks[call[w].id].Enabled) => res[w] = ErrDisabled
\* a trigger of a disabled hook with a wrong token returned the disabled error
C4_Witness ==
    \E w \in Workers :
        /\ Returned(w, {"TriggerHook"}) /\ res[w] = ErrDisabled
        /\ Has(hooks, call[w].id) /\ ~hooks[call[w].id].Enabled
        /\ hooks[call[w].id].Token # call[w].token

\* C5: TriggerHook is an atomic check-then-act: the step that writes the flag
\* file is taken only when the registry, at that moment, holds the hook,
\* enabled, with the supplied token and with the flag_file that is written;
\* and the second fetch of a trigger whose validation passed never returns
\* not-found.
C5_TriggerAtomic ==
    [][\A w \in Workers :
        /\ (pc[w] = "T_write" /\ pc'[w] = "done" /\ res'[w] \in {OK, ErrWriteFlag})
           => /\ Has(hooks, call[w].id)
              /\ hooks[call[w].id].Enabled
              /\ hooks[call[w].id].Token = call[w].token
              /\ hooks[call[w].id].FlagFile = hk[w][1].FlagFile
        /\ (pc[w] = "T_read" /\ pc'[w] # "T_read") => res'[w] # ErrHookNotFound]_vars

\* C6: whenever no writer holds the registry lock, the store file decodes to
\* exactly the records of the in-memory map, also after a save that failed.
C6_FileEqualsMap ==
    mu.writer = NoWorker => (Decodes(file) /\ FileHooks(file) = MapValues(hooks))

\* C7: an Update of an existing hook makes its UpdatedAt strictly greater than
\* it was and leaves its CreatedAt as it was, for every payload.
C7_UpdateKeepsCreatedAt ==
    [][\A w \in Workers :
        (UpdateStep(w) /\ Has(hooks, call[w].id))
        => /\ hooks'[call[w].id].UpdatedAt > hooks[call[w].id].UpdatedAt
           /\ hooks'[call[w].id].CreatedAt = hooks[call[w].id].CreatedAt]_vars

\* C8: after a CreateHook that returned nil, GetByID of its id returns a hook
\* whose ID, Name, Description, Token, FlagFile and Enabled are those of the
\* input and whose CreatedAt and UpdatedAt are set and equal.
C8_CreateThenRead ==
    \A w \in Workers :
        (Returned(w, {"CreateHook"}) /\ res[w] = OK)
        => LET g == GetByID(hooks, call[w].id)
               in == call[w].hook[1]
           IN  /\ g.err = OK
               /\ g.hook[1].ID = in.ID /\ g.hook[1].Name = in.Name
               /\ g.hook[1].Description = in.Description /\ g.hook[1].Token = in.Token
               /\ g.hook[1].FlagFile = in.FlagFile /\ g.hook[1].Enabled = in.Enabled
               /\ g.hook[1].CreatedAt # 0
               /\ g.hook[1].CreatedAt = g.hook[1].UpdatedAt
\* a hook was created from a payload whose timestamps differ from each other
C8_Witness ==
    \E w \in Workers :
        /\ Returned(w, {"CreateHook"}) /\ res[w] = OK
        /\ call[w].hook[1].CreatedAt # call[w].hook[1].UpdatedAt
        /\ Has(hooks, call[w].id) /\ hooks[call[w].id].CreatedAt >= StartTime

\* C9: the body of Update, on an id that is present, replaces the stored
\* record by the supplied one with UpdatedAt set to the reading of the clock
\* and leaves the other records alone; on an id that is absent it returns
\* not-found at once and leaves map and file as they were.
C9_UpdateReplaces ==
    [][\A w \in Workers :
        UpdateStep(w)
        => LET in == call[w].hook[1] IN
           IF Has(hooks, in.ID)
           THEN hooks' = [k \in DOMAIN hooks |-> IF k = in.ID THEN [in EXCEPT !.UpdatedAt = now] ELSE hooks[k]]
           ELSE /\ res'[w] = ErrHookNotFound /\ pc'[w] = "done"
                /\ hooks' = hooks /\ file' = file]_vars
\* an update has replaced every field of the hook stored at start
C9_Witness ==
    \E w \in Workers :
        /\ Returned(w, {"UpdateHook"}) /\ res[w] = OK
        /\ Has(hooks, call[w].id)
        /\ hooks[call[w].id].Name # StartHook.Name
        /\ hooks[call[w].id].Description # StartHook.Description
        /\ hooks[call[w].id].Token # StartHook.Token
        /\ hooks[call[w].id].FlagFile # StartHook.FlagFile
        /\ hooks[call[w].id].CreatedAt # StartHook.CreatedAt
        /\ hooks[call[w].id].UpdatedAt # StartHook.UpdatedAt

\* C10: once DeleteHook(id) has returned nil the id is absent, GetByID(id)
\* and a further Delete(id) return not-found, and an absent id becomes
\* present again only by the body of a Create of that id; a Delete or a
\* GetHook of an absent id returns not-found and changes no hook.
C10_DeleteThenNotFound ==
    /\ [](\A w \in Workers :
            (Returned(w, {"DeleteHook"}) /\ res[w] = OK)
            => /\ GetByID(hooks, call[w].id).err = ErrHookNotFound
               /\ Delete(hooks, call[w].id).err = ErrHookNotFound)
    /\ [][\A id \in HookIds :
            (~Has(hooks, id) /\ Has(hooks', id))
            => \E w \in Workers : CreateStep(w) /\ call[w].id = id]_vars
    /\ [][\A w \in Workers :
            /\ (DeleteStep(w) /\ ~Has(hooks, call[w].id))
               => (res'[w] = ErrHookNotFound /\ pc'[w] = "done" /\ hooks' = hooks)
            /\ (pc[w] = "G_read" /\ pc'[w] = "done" /\ ~Has(hooks, call[w].id))
               => (res'[w] = ErrHookNotFound /\ hooks' = hooks)]_vars
\* a hook was deleted while another hook stayed in the registry
C10_Witness ==
    \E w \in Workers :
        /\ Returned(w, {"DeleteHook"}) /\ res[w] = OK
        /\ ~Has(hooks, call[w].id)
        /\ DOMAIN hooks # {}

\* -------------------- one worker, a store file with any list of records
\* records of the store file: two with the id of the hook stored at start
LoadRecords ==
    {StartHook, Hook("h1", "n2", "", TokenB, <<"a", Slash, "b">>, FALSE, 1, 1),
     Hook("h2", "n2", "", TokenA, <<"a", Slash, "b">>, TRUE, 1, 1)}
\* the store file at start: missing, of zero bytes, or a list of records
LoadFiles == {FileMissing, FileEmpty} \cup {FileList(l) : l \in SeqsUpTo(LoadRecords, MaxFileLen)}
InitLoad == \E f \in LoadFiles : InitWith(f)
NextLoad == WorkerStep("w1", TamperInputs)
LoadSpec == InitLoad /\ [][NextLoad]_vars

\* ------------------ one worker whose caller writes to the hooks it holds
\* the id of the stored record the caller of w holds a pointer to: GetByID
\* returns the pointer the map holds, Create and Update store the pointer
\* they were given; <<>> when it holds none
HeldStored(w) ==
    IF Returned(w, {"GetHook"}) /\ hk[w] # <<>> /\ Has(hooks, hk[w][1].ID)
       /\ hooks[hk[w][1].ID] = hk[w][1]
    THEN <<hk[w][1].ID>>
    ELSE IF Returned(w, {"CreateHook", "UpdateHook"}) /\ Has(hooks, call[w].id)
            /\ res[w] \in {OK, ErrMkdir, ErrCreateFile, ErrEncode}
    THEN <<call[w].id>>
    ELSE <<>>

\* the caller of w sets the Enabled field of the Hook it holds, after the call
CallerWrites(w, enabled) ==
    /\ HeldStored(w) # <<>>
    /\ hooks' = [hooks EXCEPT ![HeldStored(w)[1]].Enabled = enabled]
    /\ hk' = [hk EXCEPT ![w] = IF @ = <<>> THEN @ ELSE <<[@[1] EXCEPT !.Enabled = enabled]>>]
    /\ UNCHANGED <<file, flags, now, mu, pc, call, res, req, build>>

InitAlias == InitWith(FileList(<<StartHook>>))
NextAlias ==
    \/ WorkerStep("w1", ConcInputs)
    \/ \E enabled \in BOOLEAN : CallerWrites("w1", enabled)
AliasSpec == InitAlias /\ [][NextAlias]_vars

\* ---------------------- two workers, each calling CreateHook once, no hook yet
RaceInputs == Inputs(ConcInputs.hooks \cup Payloads({"h2"}, {BodyB}, {TokenA}, {TRUE}, {0}), {}, {})
InitRace == InitWith(FileMissing)
NextRace ==
    \E w \in Workers :
        \/ pc[w] = "idle" /\ \E hook \in RaceInputs.hooks : CallCreateHook(w, hook)
        \/ CreateLock(w)
        \/ CreateBody(w)
        \/ CreatePut(w)
        \/ CreateSave(w)
RaceSpec == InitRace /\ [][NextRace]_vars

\* the errors validateHook returns
ValidationErrors ==
    {ErrIDRequired, ErrNameRequired, ErrFlagFileRequired, ErrFlagFileAbs, ErrFlagFileTraversal}
\* a hook the rules refuse: no id, no name, no flag_file, an absolute flag_file
\* or one with a parent segment
Refused(h) ==
    \/ h.ID = "" \/ h.Name = "" \/ h.FlagFile = <<>>
    \/ h.FlagFile[1] = Slash
    \/ \E i \in 1..Len(Split(h.FlagFile)) : Split(h.FlagFile)[i] = DotDot
RegistryPcs(op) == {op \o "_lock", op \o "_cs", op \o "_put", op \o "_save"}

\* C11: CreateHook and UpdateHook refuse alike a hook without id, without
\* name, or whose flag_file is empty, absolute or has a parent segment: the
\* call returns a validation error at once, without entering the registry
\* and with map and file as they were; and every hook in the registry
\* satisfies the rules.
C11_ValidationFirst ==
    /\ [](\A w \in Workers :
            /\ (pc[w] \in RegistryPcs("Create") \cup RegistryPcs("Update"))
               => ~Refused(call[w].hook[1])
            /\ (Returned(w, {"CreateHook", "UpdateHook"}) /\ Refused(call[w].hook[1]))
               => res[w] \in ValidationErrors)
    /\ [](\A id \in DOMAIN hooks : hooks[id].ID = id /\ ~Refused(hooks[id]))
    /\ [][\A w \in Workers :
            (/\ Idle(w) /\ call'[w].op \in {"CreateHook", "UpdateHook"}
             /\ Refused(call'[w].hook[1]))
            => /\ pc'[w] = "done" /\ res'[w] \in ValidationErrors
               /\ hooks' = hooks /\ file' = file /\ mu' = mu]_vars
\* an update of the stored hook to the flag_file ../a was refused
C11_Witness ==
    \E w \in Workers :
        /\ Returned(w, {"UpdateHook"}) /\ res[w] = ErrFlagFileTraversal
        /\ call[w].hook[1].FlagFile = <<Dot, Dot, Slash, "a">>
        /\ Has(hooks, call[w].id) /\ hooks[call[w].id] = StartHook

\* C12: when TriggerHook returns nil, the flags directory holds at the flags
\* root joined with the hook's flag_file a file of exactly one line, the
\* time of this trigger; the step that writes it replaces what the file held
\* (a line that is not later than the new one) and touches no other file.
C12_FlagFileOneLine ==
    /\ [](\A w \in Workers :
            (Returned(w, {"TriggerHook"}) /\ res[w] = OK)
            => /\ Has(hooks, call[w].id)
               /\ {f.lines : f \in {g \in flags : g.path = Join(FlagsDir, hooks[call[w].id].FlagFile)}}
                    = {<<RFC3339(now - 1)>>})
    /\ [][\A w \in Workers :
            (pc[w] = "T_write" /\ pc'[w] = "done" /\ res'[w] = OK)
            => LET target == Join(FlagsDir, hk[w][1].FlagFile) IN
               /\ {f \in flags' : f.path = target} = {[path |-> target, lines |-> <<RFC3339(now)>>]}
               /\ \A f \in flags : (f.path = target /\ f.lines # <<>>)
                                     => Len(f.lines) = 1 /\ f.lines[1] <= RFC3339(now)
               /\ {f \in flags' : f.path # target} = {f \in flags : f.path # target}]_vars
\* the hook stored at start was triggered a second time: its file holds one line
C12_Witness ==
    \E w \in Workers :
        /\ Returned(w, {"TriggerHook"}) /\ res[w] = OK
        /\ now = StartTime + 2
        /\ Has(hooks, call[w].id) /\ hooks[call[w].id] = StartHook /\ DOMAIN hooks = {call[w].id}
        /\ flags = {[path |-> Join(FlagsDir, StartHook.FlagFile), lines |-> <<RFC3339(now - 1)>>]}

\* what ValidateHookToken returns when it refuses
TokenErrors == {ErrHookNotFound, ErrDisabled, ErrInvalidToken}

\* C13: a TriggerHook whose token validation fails (hook not found, hook
\* disabled, wrong token) returns that error at once and leaves the flags
\* directory as it was: a trigger is past its validation only when the
\* validation passes, and only the last step of such a trigger changes the
\* flags directory.
C13_FailedValidationNoWrite ==
    /\ [](\A w \in Workers :
            (pc[w] \in {"T_rlock", "T_read", "T_write"})
            => ValidateHookToken(hooks, call[w].id, call[w].token) = OK)
    /\ [][\A w \in Workers :
            (/\ pc[w] = "V_read" /\ pc'[w] # "V_read"
             /\ ValidateHookToken(hooks, call[w].id, call[w].token) # OK)
            => /\ pc'[w] = "done" /\ res'[w] \in TokenErrors
               /\ flags' = flags]_vars
    /\ [][flags' # flags
          => \E w \in Workers : pc[w] = "T_write" /\ call[w].op = "TriggerHook"]_vars
\* a trigger with a wrong token failed and the file of an earlier trigger is as it was
C13_Witness ==
    \E w \in Workers :
        /\ Returned(w, {"TriggerHook"}) /\ res[w] = ErrInvalidToken
        /\ Has(hooks, call[w].id) /\ hooks[call[w].id] = StartHook
        /\ flags = {[path |-> Join(FlagsDir, StartHook.FlagFile), lines |-> <<RFC3339(StartTime)>>]}

\* worker w is between r.mu.Lock() and r.mu.Unlock() of Create, Update or Delete
InWrite(w) == pc[w] \in {op \o at : op \in {"Create", "Update", "Delete"}, at \in {"_cs", "_put", "_save"}}
\* worker w is between r.mu.RLock() and r.mu.RUnlock() of GetByID or GetAll
InRead(w) == pc[w] \in {"G_read", "A_read", "V_read", "T_read"}

StoredAsPut(w) ==
    /\ Has(hooks, call[w].id)
    /\ [hooks[call[w].id] EXCEPT !.CreatedAt = 0, !.UpdatedAt = 0]
         = [call[w].hook[1] EXCEPT !.CreatedAt = 0, !.UpdatedAt = 0]

\* C15: concurrent mutations of the registry are serialized. A Create runs
\* from its check to its save as if alone: the id its check found absent is
\* still absent when the record is put, and the record put is still there
\* when the file is written. And of two concurrent Creates of one id, none
\* being stored before, exactly one succeeds, returning nil, and the other
\* one returns the already-exists error.
C15_Serialized ==
    /\ \A w \in Workers :
            /\ pc[w] = "Create_put" => ~Has(hooks, call[w].id)
            /\ pc[w] = "Create_save" => StoredAsPut(w)
    /\ \A w1, w2 \in Workers :
            (/\ w1 # w2
             /\ Returned(w1, {"CreateHook"}) /\ Returned(w2, {"CreateHook"})
             /\ call[w1].id = call[w2].id)
            => \/ res[w1] = OK /\ res[w2] = ErrAlreadyExists
               \/ res[w2] = OK /\ res[w1] = ErrAlreadyExists

\* C16: the registry owns its records. The map and the records in it change
\* only by a step of a worker that is inside Create, Update or Delete, so a
\* change a caller makes to a Hook it passed to Create or Update or got from
\* GetByID leaves the registry's record as it was; and the step of
\* TriggerHook that reads the fetched record to write the flag file does not
\* read a record the registry holds.
C16_RegistryOwnsRecords ==
    /\ [][hooks' # hooks => \E w \in Workers : InWrite(w) /\ pc'[w] # pc[w]]_vars
    /\ [](\A w \in Workers :
            pc[w] = "T_write" => ~(Has(hooks, hk[w][1].ID) /\ hooks[hk[w][1].ID] = hk[w][1]))

\* no call was made yet: map and file are as NewJSONHookRepository left them
Fresh == \A w \in Workers : pc[w] = "idle"
\* the place of the last record with this id in the list
LastOf(recs, id) == CHOOSE i \in 1..Len(recs) :
                        recs[i].ID = id /\ \A j \in (i + 1)..Len(recs) : recs[j].ID # id

\* C17: after construction there is a store file that decodes (a missing one
\* was written as the empty list); on a missing file, a file of zero bytes
\* or an empty list the registry is empty; on a list it holds one record for
\* each id of the list, the last one with that id in the order of the file.
C17_LoadLastWins ==
    Fresh =>
        /\ file.kind \in {"list", "empty"}
        /\ DOMAIN hooks = {file.recs[i].ID : i \in 1..Len(file.recs)}
        /\ \A id \in DOMAIN hooks : hooks[id] = file.recs[LastOf(file.recs, id)]
\* the registry was constructed on a file that lists one id twice
C17_Witness ==
    /\ Fresh
    /\ Len(file.recs) = 2 /\ file.recs[1].ID = file.recs[2].ID /\ file.recs[1] # file.recs[2]
    /\ hooks = [id \in {file.recs[2].ID} |-> file.recs[2]]

\* ================================================================ HTTP API
\* cfg.Server.AdminToken, which main refuses to start without
AdminToken == <<"s", "3">>
Space == " "

\* strings.SplitOn(s, sep) for a one-character sep
RECURSIVE SplitOnAcc(_, _, _, _)
SplitOnAcc(s, sep, i, parts) ==
    IF i > Len(s) THEN parts
    ELSE IF s[i] = sep THEN SplitOnAcc(s, sep, i + 1, Append(parts, <<>>))
    ELSE SplitOnAcc(s, sep, i + 1,
                  [parts EXCEPT ![Len(parts)] = Append(parts[Len(parts)], s[i])])
SplitOn(s, sep) == SplitOnAcc(s, sep, 1, <<<<>>>>)

\* strings.ToLower over the letters the requests use
LowerOf(c) ==
    CASE c = "B" -> "b" [] c = "E" -> "e" [] c = "A" -> "a" [] c = "R" -> "r"
      [] OTHER -> c
ToLower(s) == [i \in DOMAIN s |-> LowerOf(s[i])]
Bearer == <<"b", "e", "a", "r", "e", "r">>

\* any well-formed Bearer header passes
IsAuthenticated_AnyBearer(authHeader) ==
    IF authHeader = <<>> THEN FALSE
    ELSE LET parts == SplitOn(authHeader, Space) IN
         ~(Len(parts) # 2 \/ ToLower(parts[1]) # Bearer)

\* AdminAuth.IsAuthenticated on the Authorization header
IsAuthenticated(authHeader) ==
    IF authHeader = <<>> THEN FALSE
    ELSE LET parts == SplitOn(authHeader, Space) IN
         IF Len(parts) # 2 \/ ToLower(parts[1]) # Bearer THEN FALSE
         ELSE parts[2] = AdminToken

\* the guard at the head of createHook, updateHook and deleteHook when the
\* handlers are registered as they are: the X-Admin-Token header
checkAdminToken(adminToken) ==
    IF adminToken = <<>> THEN FALSE
    ELSE adminToken = AdminToken

\* the guard a request for a management route meets in build b
AdminAllowed(b, r) ==
    IF b = "RegisterRoutes" THEN checkAdminToken(r.adminToken)
    ELSE IsAuthenticated(r.auth)

\* ------------------------------------------------------------ GenerateToken
\* the byte of '-' and the number of random bytes asked for
Dash == 45
RandLen == 16

\* the digits of n in base 16, most significant first
RECURSIVE HexDigits(_)
HexDigits(n) == IF n < 16 THEN <<n>> ELSE Append(HexDigits(n \div 16), n % 16)
\* the byte of the character that shows the hex digit d: '0'..'9', 'a'..'f'
DigitByte(d) == IF d < 10 THEN 48 + d ELSE 87 + d
\* fmt.Sprintf("%x", n) and fmt.Sprintf("%016x", n), as bytes
SprintfHex(n) == [i \in DOMAIN HexDigits(n) |-> DigitByte(HexDigits(n)[i])]
SprintfHex16(n) ==
    IF Len(SprintfHex(n)) >= RandLen THEN SprintfHex(n)
    ELSE [i \in 1..(RandLen - Len(SprintfHex(n))) |-> DigitByte(0)] \o SprintfHex(n)
\* hex.EncodeToString: two digits for each byte
EncodeToString(bytes) ==
    [i \in 1..(2 * Len(bytes)) |->
        IF i % 2 = 1 THEN DigitByte(bytes[(i + 1) \div 2] \div 16)
        ELSE DigitByte(bytes[i \div 2] % 16)]

\* what rand.Read did to the buffer: filled it, or failed
RandRead(err, byte) == [err |-> err, bytes |-> [i \in 1..RandLen |-> byte]]
RandReads == {RandRead(FALSE, 0), RandRead(FALSE, 255), RandRead(TRUE, 0)}

\* no token when the random source fails
GenerateToken_EmptyOnFailure(timestamp, rnd) ==
    IF rnd.err THEN <<>>
    ELSE SprintfHex(timestamp) \o <<Dash>> \o EncodeToString(rnd.bytes)

\* HookService.GenerateToken, the clock read at timestamp
GenerateToken(timestamp, rnd) ==
    LET randomBytes == IF rnd.err THEN SprintfHex16(timestamp) ELSE rnd.bytes
    IN  SprintfHex(timestamp) \o <<Dash>> \o EncodeToString(randomBytes)

\* ------------------------------------------------------------ the handlers
StatusOK == 200
StatusCreated == 201
StatusNoContent == 204
StatusBadRequest == 400
StatusUnauthorized == 401
StatusForbidden == 403
StatusNotFound == 404
StatusInternalServerError == 500

\* the webhook middleware validated the token and has not yet called the
\* handler behind it
Pending(w) ==
    /\ build = "Middleware"
    /\ req[w].route = "triggerHook" /\ req[w].status = 0
    /\ pc[w] = "done" /\ call[w].op = "ValidateHookToken" /\ res[w] = OK

\* the server takes a new request on worker w
CanServe(w) == Idle(w) /\ ~Pending(w) /\ ClockLeft

\* respondError before any call of the service
Answer(w, r, status) ==
    /\ req' = [req EXCEPT ![w] = [r EXCEPT !.status = status]]
    /\ pc' = [pc EXCEPT ![w] = "done"]
    /\ call' = [call EXCEPT ![w] = NoCall]
    /\ res' = [res EXCEPT ![w] = OK]
    /\ hk' = [hk EXCEPT ![w] = <<>>]
    /\ UNCHANGED <<hooks, file, flags, now, mu, build>>

\* POST /api/hooks: the admin guard, the decoding, the token and the
\* timestamps, then HookService.CreateHook
createHook(w, r, rnd) ==
    /\ CanServe(w)
    /\ IF ~AdminAllowed(build, r) THEN Answer(w, r, StatusForbidden)
       ELSE IF r.body = <<>> THEN Answer(w, r, StatusBadRequest)
       ELSE LET gen == r.body[1].Token = <<>>
                token == IF gen THEN GenerateToken(now, rnd) ELSE r.body[1].Token
                t == IF gen THEN now + 1 ELSE now
            IN  /\ EnterCreateHook(w, [r.body[1] EXCEPT !.Token = token,
                                                        !.CreatedAt = t,
                                                        !.UpdatedAt = t])
                /\ now' = t + 1
                /\ req' = [req EXCEPT ![w] = r]
                /\ UNCHANGED <<hooks, file, flags, mu, build>>

\* an update handler that leaves the id of the body as it is
updateHook_BodyID(w, r) ==
    /\ CanServe(w)
    /\ IF ~AdminAllowed(build, r) THEN Answer(w, r, StatusForbidden)
       ELSE IF r.body = <<>> THEN Answer(w, r, StatusBadRequest)
       ELSE /\ EnterUpdateHook(w, [r.body[1] EXCEPT !.UpdatedAt = now])
            /\ now' = now + 1
            /\ req' = [req EXCEPT ![w] = r]
            /\ UNCHANGED <<hooks, file, flags, mu, build>>

\* PUT /api/hooks/{id}
updateHook(w, r) ==
    /\ CanServe(w)
    /\ IF ~AdminAllowed(build, r) THEN Answer(w, r, StatusForbidden)
       ELSE IF r.body = <<>> THEN Answer(w, r, StatusBadRequest)
       ELSE /\ EnterUpdateHook(w, [r.body[1] EXCEPT !.ID = r.id, !.UpdatedAt = now])
            /\ now' = now + 1
            /\ req' = [req EXCEPT ![w] = r]
            /\ UNCHANGED <<hooks, file, flags, mu, build>>

\* DELETE /api/hooks/{id}
deleteHook(w, r) ==
    /\ CanServe(w)
    /\ IF ~AdminAllowed(build, r) THEN Answer(w, r, StatusForbidden)
       ELSE /\ EnterDeleteHook(w, r.id)
            /\ req' = [req EXCEPT ![w] = r]
            /\ UNCHANGED <<hooks, file, flags, now, mu, build>>

\* POST /webhook/{id}: the handler itself, or first WebhookAuth.Middleware,
\* which calls ValidateHookToken
triggerHook(w, r) ==
    /\ CanServe(w)
    /\ IF r.token = <<>> THEN Answer(w, r, StatusBadRequest)
       ELSE /\ EnterValidation(w, IF build = "Middleware" THEN "ValidateHookToken"
                                  ELSE "TriggerHook", r.id, r.token)
            /\ req' = [req EXCEPT ![w] = r]
            /\ UNCHANGED <<hooks, file, flags, now, mu, build>>

\* next.ServeHTTP of WebhookAuth.Middleware: the handler calls TriggerHook
webhookNext(w) ==
    /\ Pending(w)
    /\ EnterValidation(w, "TriggerHook", req[w].id, req[w].token)
    /\ UNCHANGED <<hooks, file, flags, now, mu, req, build>>

\* the status each handler writes for the error of its service call
createStatus(err) ==
    IF err # OK THEN StatusInternalServerError ELSE StatusCreated
updateStatus(err) ==
    IF err = ErrHookNotFound THEN StatusNotFound
    ELSE IF err # OK THEN StatusInternalServerError
    ELSE StatusOK
deleteStatus(err) ==
    IF err = ErrHookNotFound THEN StatusNotFound
    ELSE IF err # OK THEN StatusInternalServerError
    ELSE StatusNoContent
triggerStatus(err) ==
    IF err = ErrHookNotFound THEN StatusNotFound
    ELSE IF err = ErrInvalidToken THEN StatusUnauthorized
    ELSE IF err # OK THEN StatusInternalServerError
    ELSE StatusOK
\* WebhookAuth.Middleware answers only when the validation failed
webhookAuthStatus(err) ==
    IF err = ErrHookNotFound THEN StatusNotFound
    ELSE IF err = ErrInvalidToken THEN StatusUnauthorized
    ELSE StatusInternalServerError

\* the request of worker w has its response
Responded(w) == pc[w] = "done" /\ req[w].route # "none" /\ ~Pending(w)

\* the status of that response
Status(w) ==
    IF req[w].status # 0 THEN req[w].status
    ELSE IF req[w].route = "createHook" THEN createStatus(res[w])
    ELSE IF req[w].route = "updateHook" THEN updateStatus(res[w])
    ELSE IF req[w].route = "deleteHook" THEN deleteStatus(res[w])
    ELSE IF call[w].op = "ValidateHookToken" THEN webhookAuthStatus(res[w])
    ELSE triggerStatus(res[w])

\* ---------------------------- one worker serving requests, in either build
WrongAdminToken == <<"s", "4">>
AdminHeaders == {<<>>, AdminToken, WrongAdminToken}
Scheme == <<"B", "e", "a", "r", "e", "r">>
AuthHeaders ==
    {<<>>,
     Scheme \o <<Space>> \o AdminToken,
     ToLower(Scheme) \o <<Space>> \o AdminToken,
     Scheme \o <<Space>> \o WrongAdminToken,
     Scheme \o <<Space>> \o AdminToken \o <<Space>>,
     <<"B", "a", "s", "i", "c", Space>> \o AdminToken,
     AdminToken}
\* the two headers of a request: one of them, none, or both with the token
Credentials ==
    {<<x, <<>>>> : x \in AdminHeaders} \cup {<<<<>>, a>> : a \in AuthHeaders}
        \cup {<<AdminToken, Scheme \o <<Space>> \o AdminToken>>}

\* bodies of POST /api/hooks: a new hook without and with a token, the id of
\* the stored hook, a flag_file that escapes, and a body that does not decode
CreateBodies ==
    {<<Hook("h2", "n2", "", <<>>, <<"a", Slash, "b">>, TRUE, 0, 0)>>,
     <<Hook("h2", "n2", "", TokenB, <<"a", Slash, "b">>, TRUE, 0, 0)>>,
     <<Hook("h1", "n1", "d1", TokenB, <<"a">>, TRUE, 0, 0)>>,
     <<Hook("h2", "n2", "", TokenB, <<Dot, Dot, Slash, "a">>, TRUE, 0, 0)>>,
     <<>>}
\* bodies of PUT /api/hooks/{id}: the hook disabled, and no hook
UpdateBodies == {<<Hook("", "n1", "d1", TokenA, <<"a">>, FALSE, 0, 0)>>, <<>>}

CreateRequests ==
    {Request("createHook", "", <<>>, c[1], c[2], b) : c \in Credentials, b \in CreateBodies}
UpdateRequests ==
    {Request("updateHook", id, <<>>, c[1], c[2], b) :
        c \in Credentials, id \in HookIds, b \in UpdateBodies}
DeleteRequests ==
    {Request("deleteHook", id, <<>>, c[1], c[2], <<>>) : c \in Credentials, id \in HookIds}
TriggerRequests ==
    {Request("triggerHook", id, token, <<>>, <<>>, <<>>) :
        id \in HookIds, token \in {TokenA, <<2>>, <<>>}}

InitApi == \E b \in Builds : InitBuild(FileList(<<StartHook>>), b, StartTime)

NextApi ==
    \/ \E r \in CreateRequests, rnd \in RandReads : createHook("w1", r, rnd)
    \/ \E r \in UpdateRequests : updateHook("w1", r)
    \/ \E r \in DeleteRequests : deleteHook("w1", r)
    \/ \E r \in TriggerRequests : triggerHook("w1", r)
    \/ webhookNext("w1")
    \/ CreateLock("w1")
    \/ CreateBody("w1")
    \/ CreatePut("w1")
    \/ CreateSave("w1")
    \/ UpdateLock("w1")
    \/ UpdateBody("w1")
    \/ UpdatePut("w1")
    \/ UpdateSave("w1")
    \/ DeleteLock("w1")
    \/ DeleteBody("w1")
    \/ DeletePut("w1")
    \/ DeleteSave("w1")
    \/ ValidateRLock("w1")
    \/ ValidateRead("w1")
    \/ TriggerRLock("w1")
    \/ TriggerRead("w1")
    \/ TriggerWrite("w1")

ApiSpec == InitApi /\ [][NextApi]_vars

\* the management routes that change the registry
MutatingRoutes == {"createHook", "updateHook", "deleteHook"}
MutatingCalls == {"CreateHook", "UpdateHook", "DeleteHook"}
\* request r carries the configured admin token where build b reads it: the
\* X-Admin-Token header, or the credential of a Bearer Authorization header
PresentsToken(b, r) ==
    IF b = "RegisterRoutes" THEN r.adminToken = AdminToken
    ELSE \E k \in 1..Len(r.auth) :
            /\ r.auth[k] = Space
            /\ ToLower(SubSeq(r.auth, 1, k - 1)) = Bearer
            /\ SubSeq(r.auth, k + 1, Len(r.auth)) = AdminToken

\* C18: a create, update or delete request that does not carry the
\* configured admin token is answered with 403 in the step that takes it, no
\* call of the service is made for it and the registry, the store file and
\* the flags are as before; a worker inside CreateHook, UpdateHook or
\* DeleteHook serves a request that carried the token, and so does every
\* step that changes the registry.
C18_AdminGuard ==
    /\ [][\A w \in Workers :
            (/\ req'[w] # req[w]
             /\ req'[w].route \in MutatingRoutes
             /\ ~PresentsToken(build, req'[w]))
            => /\ req'[w].status = StatusForbidden
               /\ pc'[w] = "done" /\ call'[w] = NoCall
               /\ UNCHANGED <<hooks, file, flags>>]_vars
    /\ [](\A w \in Workers :
            call[w].op \in MutatingCalls => PresentsToken(build, req[w]))
    /\ [][hooks' # hooks =>
            \E w \in Workers : /\ req[w].route \in MutatingRoutes
                               /\ PresentsToken(build, req[w])]_vars
C18_Witness ==
    /\ build = "Middleware"
    /\ Responded("w1") /\ req["w1"].route = "deleteHook"
    /\ req["w1"].auth = Scheme \o <<Space>> \o WrongAdminToken
    /\ Has(hooks, req["w1"].id)
    /\ Status("w1") = StatusForbidden

\* the hook createHook holds: the one it passed to CreateHook and puts in
\* the body of its 201 response
ResponseHook(w) == call[w].hook[1]

\* C19: the hook that createHook passes to the service has a non-empty
\* token, the token of the body when the body has one and a generated one
\* otherwise, whatever the random source did; the registry stores the hook
\* with that token, and a 201 response carries the token that is stored.
C19_TokenGenerated ==
    \A w \in Workers :
        (req[w].route = "createHook" /\ call[w].op = "CreateHook") =>
            /\ ResponseHook(w).Token # <<>>
            /\ req[w].body[1].Token # <<>> =>
                    ResponseHook(w).Token = req[w].body[1].Token
            /\ pc[w] = "Create_save" =>
                    hooks[ResponseHook(w).ID].Token = ResponseHook(w).Token
            /\ (Responded(w) /\ Status(w) = StatusCreated) =>
                    /\ Has(hooks, ResponseHook(w).ID)
                    /\ hooks[ResponseHook(w).ID].Token = ResponseHook(w).Token
C19_Witness ==
    /\ Responded("w1") /\ Status("w1") = StatusCreated
    /\ req["w1"].body[1].Token = <<>>
    /\ \E t \in 0..MaxTime :
            hooks["h2"].Token = GenerateToken(t, RandRead(TRUE, 0))

\* the errors of os.MkdirAll, os.Create and the writes, in save and in
\* createFlagFile
IOErrors == {ErrMkdir, ErrCreateFile, ErrEncode, ErrCreateFlag, ErrWriteFlag}
\* the kind of an error the service returns
Kind(err) ==
    CASE err = ErrHookNotFound -> "NotFound"
      [] err = ErrAlreadyExists -> "AlreadyExists"
      [] err = ErrInvalidToken -> "InvalidToken"
      [] err = ErrDisabled -> "Disabled"
      [] err \in ValidationErrors -> "ValidationError"
      [] err \in IOErrors -> "IOError"
      [] OTHER -> "none"
\* the response of worker w reports an error of its service call
Failed(w) == Responded(w) /\ req[w].status = 0 /\ res[w] # OK

\* C20: two failed responses of one handler, one after the other, whose
\* service calls returned errors of different kinds, have different HTTP
\* statuses.
C20_KindsDistinct ==
    [][\A w \in Workers :
        (/\ Failed(w) /\ Failed(w)'
         /\ req'[w].route = req[w].route
         /\ Kind(res'[w]) # Kind(res[w]))
        => Status(w)' # Status(w)]_vars

\* ------------------------------------------- the cost of the token comparison
\* the loop of subtle.ConstantTimeCompare, v |= x[i] ^ y[i] for every i: whether
\* v ended non-zero, and the number of byte pairs read
RECURSIVE XorLoop(_, _, _, _)
XorLoop(x, y, i, acc) ==
    IF i > Len(x) THEN acc
    ELSE XorLoop(x, y, i + 1, [v |-> IF x[i] # y[i] THEN 1 ELSE acc.v,
                               steps |-> acc.steps + 1])
\* the byte pairs read by a comparison that returns at the first difference
RECURSIVE FirstDifference(_, _, _)
FirstDifference(x, y, i) ==
    IF i > Len(x) \/ i > Len(y) THEN i - 1
    ELSE IF x[i] # y[i] THEN i
    ELSE FirstDifference(x, y, i + 1)

CompareSteps_EarlyExit(x, y) == FirstDifference(x, y, 1)

\* the byte pairs subtle.ConstantTimeCompare(x, y) reads: none when the
\* lengths differ, else every pair
CompareSteps(x, y) ==
    IF Len(x) # Len(y) THEN 0 ELSE XorLoop(x, y, 1, [v |-> 0, steps |-> 0]).steps

\* the tokens a stored or a supplied token is compared with
TimingTokens == SeqsUpTo({1, 2}, MaxTokenLen)

TokenlessInputs ==
    Inputs(Payloads({"h1"}, {BodyA}, {<<>>, TokenA}, BOOLEAN, {0}),
           {"h1"}, {<<>>, TokenA, <<2>>})
InitTokenless == \E f \in SavedFiles : InitWith(f)
NextTokenless == WorkerStep("w1", TokenlessInputs)
TokenlessSpec == InitTokenless /\ [][NextTokenless]_vars

\* C22: a ValidateHookToken or TriggerHook call with an empty token never
\* passes the validation: it is not past the checks of ValidateHookToken and
\* it does not return without an error, whatever hook CreateHook or
\* UpdateHook stored.
C22_EmptyTokenRefused ==
    \A w \in Workers :
        (call[w].op \in {"ValidateHookToken", "TriggerHook"} /\ call[w].token = <<>>) =>
            /\ pc[w] \notin {"T_rlock", "T_read", "T_write"}
            /\ pc[w] = "done" => res[w] # OK

\* ------ one worker, a flag_file of any shape resubmitted and triggered
\* the stored hook as the payload of an update: the same flag_file
StoredPayloads == {hooks[id] : id \in {i \in HookIds : Has(hooks, i)}}
InitFlagRule == \E f \in TamperedFiles : InitWith(f)
NextFlagRule ==
    \/ \E hook \in StoredPayloads : CallUpdateHook("w1", hook)
    \/ UpdateLock("w1")
    \/ UpdateBody("w1")
    \/ UpdatePut("w1")
    \/ UpdateSave("w1")
    \/ \E id \in HookIds : CallTriggerHook("w1", id, TokenA)
    \/ ValidateRLock("w1")
    \/ ValidateRead("w1")
    \/ TriggerRLock("w1")
    \/ TriggerRead("w1")
    \/ TriggerWrite("w1")
FlagRuleSpec == InitFlagRule /\ [][NextFlagRule]_vars

FlagErrors == {ErrFlagFileRequired, ErrFlagFileAbs, ErrFlagFileTraversal}
\* empty, absolute, or with a segment that is ".."
SegmentRule(ff) ==
    \/ ff = <<>>
    \/ ff[1] = Slash
    \/ \E i \in 1..Len(Split(ff)) : Split(ff)[i] = <<Dot, Dot>>
\* empty, absolute, or with two dots in a row anywhere
SubstringRule(ff) ==
    \/ ff = <<>>
    \/ ff[1] = Slash
    \/ \E i \in 1..(Len(ff) - 1) : ff[i] = Dot /\ ff[i + 1] = Dot
\* the trigger of worker w got as far as createFlagFile and returned
TriggerChecked(w) == Returned(w, {"TriggerHook"}) /\ hk[w] # <<>>

\* C23 as written: UpdateHook refuses a flag_file exactly when it is empty,
\* absolute or has a ".." segment, and createFlagFile refuses a stored
\* flag_file exactly when validateHook refuses it.
C23_SegmentRule ==
    \A w \in Workers :
        /\ Returned(w, {"UpdateHook"}) =>
                (res[w] \in FlagErrors <=> SegmentRule(call[w].hook[1].FlagFile))
        /\ TriggerChecked(w) =>
                (res[w] \in FlagErrors <=> validateHook(hk[w][1]) # OK)

\* C23: UpdateHook refuses a flag_file exactly when it is empty, absolute or
\* has two dots in a row anywhere (so "a..a" is refused), and createFlagFile
\* refuses a stored flag_file exactly when it is not empty and validateHook
\* refuses it.
C23_SubstringRule ==
    \A w \in Workers :
        /\ Returned(w, {"UpdateHook"}) =>
                (res[w] \in FlagErrors <=> SubstringRule(call[w].hook[1].FlagFile))
        /\ TriggerChecked(w) =>
                (res[w] \in FlagErrors <=>
                    (hk[w][1].FlagFile # <<>> /\ validateHook(hk[w][1]) # OK))
C23_Witness ==
    /\ Returned("w1", {"UpdateHook"}) /\ res["w1"] = ErrFlagFileTraversal
    /\ call["w1"].hook[1].FlagFile = <<"a", Dot, Dot, "a">>

\* ------------------------------------------------- the encoding of the file
\* json.Marshal of a Hook: an object with the keys of the struct tags
MarshalHook(h) ==
    [id |-> h.ID, name |-> h.Name, description |-> h.Description, token |-> h.Token,
     flag_file |-> h.FlagFile, enabled |-> h.Enabled,
     created_at |-> h.CreatedAt, updated_at |-> h.UpdatedAt]

\* a decoding that does not read the token
UnmarshalHook_NoToken(j) ==
    Hook(j.id, j.name, j.description, <<>>, j.flag_file, j.enabled,
         j.created_at, j.updated_at)

\* json.Unmarshal into a Hook
UnmarshalHook(j) ==
    Hook(j.id, j.name, j.description, j.token, j.flag_file, j.enabled,
         j.created_at, j.updated_at)

\* the store file f as a later process reads it: each record went through
\* the encoder of save and comes back through the decoder of load
Reopen(f) == [f EXCEPT !.recs = [i \in DOMAIN f.recs |-> UnmarshalHook(MarshalHook(f.recs[i]))]]

\* C24: when a CreateHook, UpdateHook or DeleteHook has returned without an
\* error, a registry constructed from the store file as it is then holds
\* exactly the records of the map, whatever order save listed them in.
C24_RoundTrip ==
    \A w \in Workers :
        (Returned(w, {"CreateHook", "UpdateHook", "DeleteHook"}) /\ res[w] = OK) =>
            LET r == NewJSONHookRepository(Reopen(file), "ok")
            IN  r.err = OK /\ r.hooks = hooks
C24_Witness ==
    /\ Returned("w1", {"CreateHook"}) /\ res["w1"] = OK
    /\ Len(file.recs) = 2 /\ file.recs[1].ID = "h2" /\ file.recs[2].ID = "h1"

\* the calls of the service that only read the registry
ReadCalls == {"TriggerHook", "ValidateHookToken", "GetHook", "GetAllHooks"}

\* C25: no step of a TriggerHook, ValidateHookToken, GetHook or GetAllHooks
\* call changes the map or the store file, whatever the other worker is in
\* the middle of; and the enabled flag of a stored hook changes only in the
\* step of an Update that replaces the record.
C25_ReadCallsFrame ==
    [][/\ \A w \in Workers :
            (pc'[w] # pc[w] /\ call'[w].op \in ReadCalls) => UNCHANGED <<hooks, file>>
       /\ \A id \in HookIds :
            (Has(hooks, id) /\ Has(hooks', id) /\ hooks'[id].Enabled # hooks[id].Enabled)
            => \E w \in Workers : pc[w] = "Update_put" /\ call[w].id = id /\ pc'[w] # pc[w]]_vars
C25_Witness ==
    /\ Returned("w1", {"TriggerHook"}) /\ res["w1"] = OK
    /\ pc["w2"] = "Update_save"
    /\ flags # {}

\* ------------- two workers that create a second hook and trigger the hooks
SharedFlagPayloads == Payloads({"h2"}, Bodies, {TokenA}, {TRUE}, {0})
InitSharedFlag == InitWith(FileList(<<StartHook>>))
NextSharedFlag ==
    \E w \in Workers :
        \/ \E hook \in SharedFlagPayloads : CallCreateHook(w, hook)
        \/ CreateLock(w)
        \/ CreateBody(w)
        \/ CreatePut(w)
        \/ CreateSave(w)
        \/ \E id \in HookIds : CallTriggerHook(w, id, TokenA)
        \/ ValidateRLock(w)
        \/ ValidateRead(w)
        \/ TriggerRLock(w)
        \/ TriggerRead(w)
        \/ TriggerWrite(w)
SharedFlagSpec == InitSharedFlag /\ [][NextSharedFlag]_vars

\* C26: when a TriggerHook has returned without an error, the file it
\* created or truncated is not the file that the trigger of any other stored
\* hook creates or truncates.
C26_DisjointFlagFiles ==
    \A w \in Workers :
        (Returned(w, {"TriggerHook"}) /\ res[w] = OK) =>
            \A id \in DOMAIN hooks :
                id # hk[w][1].ID =>
                    flagPath(hooks[id].FlagFile) # flagPath(hk[w][1].FlagFile)

\* ---- the build with middleware: w1 serves webhook requests, w2 the admin's
AdminAuthorization == Scheme \o <<Space>> \o AdminToken
WebhookRaceTriggers == {Request("triggerHook", "h1", TokenA, <<>>, <<>>, <<>>)}
WebhookRaceUpdates ==
    {Request("updateHook", "h1", <<>>, <<>>, AdminAuthorization, b) : b \in UpdateBodies \ {<<>>}}
WebhookRaceDeletes == {Request("deleteHook", "h1", <<>>, <<>>, AdminAuthorization, <<>>)}
InitWebhookRace == InitBuild(FileList(<<StartHook>>), "Middleware", StartTime)
NextWebhookRace ==
    \/ \E r \in WebhookRaceTriggers : triggerHook("w1", r)
    \/ webhookNext("w1")
    \/ ValidateRLock("w1")
    \/ ValidateRead("w1")
    \/ TriggerRLock("w1")
    \/ TriggerRead("w1")
    \/ TriggerWrite("w1")
    \/ \E r \in WebhookRaceUpdates : updateHook("w2", r)
    \/ UpdateLock("w2")
    \/ UpdateBody("w2")
    \/ UpdatePut("w2")
    \/ UpdateSave("w2")
    \/ \E r \in WebhookRaceDeletes : deleteHook("w2", r)
    \/ DeleteLock("w2")
    \/ DeleteBody("w2")
    \/ DeletePut("w2")
    \/ DeleteSave("w2")
WebhookRaceSpec == InitWebhookRace /\ [][NextWebhookRace]_vars

\* C27: the TriggerHook call that the handler makes for a webhook request the
\* middleware has accepted does not return the not-found, the invalid-token
\* or the disabled error.
C27_AcceptedThenTriggered ==
    \A w \in Workers :
        (/\ build = "Middleware" /\ req[w].route = "triggerHook"
         /\ call[w].op = "TriggerHook" /\ pc[w] = "done")
        => res[w] \notin {ErrHookNotFound, ErrInvalidToken, ErrDisabled}

\* C28: every stored record has as its id the key it is stored under; the
\* hook the update handler passes to UpdateHook has the id of the URL path,
\* whatever id the body has; and the step of an Update that replaces a record
\* leaves the set of keys as it was and puts the record under its own id.
C28_IdIsKey ==
    /\ [](\A id \in DOMAIN hooks : hooks[id].ID = id)
    /\ [](\A w \in Workers :
            (req[w].route = "updateHook" /\ call[w].op = "UpdateHook") =>
                call[w].hook[1].ID = req[w].id)
    /\ [][\A w \in Workers :
            (pc[w] = "Update_put" /\ pc'[w] # pc[w]) =>
                /\ DOMAIN hooks' = DOMAIN hooks
                /\ hooks'[call[w].id].ID = call[w].id
                /\ \A id \in DOMAIN hooks \ {call[w].id} : hooks'[id] = hooks[id]]_vars
C28_Witness ==
    /\ Responded("w1") /\ req["w1"].route = "updateHook" /\ Status("w1") = StatusOK
    /\ req["w1"].body[1].ID # req["w1"].id
    /\ hooks[req["w1"].id].Enabled = req["w1"].body[1].Enabled

\* ---------------------------------------------------------------------------
\* Failed mutations

\* the errors save can return
SaveErrors == {ErrMkdir, ErrCreateFile, ErrEncode}

\* C29: a Create, Update or Delete that returns an error leaves the map as it
\* was before the call. For one caller at a time: after a Create that failed in
\* save its id is still absent (its check found it absent), after a Delete
\* that failed in save its id is still present, after an Update that failed
\* in save the stored record does not carry the time the call read; and a
\* check that returns the duplicate-id or absent-id error changes nothing.
C29_FailedCallNoChange ==
    /\ [](\A w \in Workers :
            (pc[w] = "done" /\ res[w] \in SaveErrors) =>
                /\ call[w].op = "CreateHook" => ~Has(hooks, call[w].id)
                /\ call[w].op = "DeleteHook" => Has(hooks, call[w].id)
                /\ call[w].op = "UpdateHook" =>
                       Has(hooks, call[w].id) /\ hooks[call[w].id].UpdatedAt < now - 1)
    /\ [][\A w \in Workers :
            (pc[w] \in {"Create_cs", "Update_cs", "Delete_cs"} /\ pc'[w] = "done") =>
                hooks' = hooks]_vars

\* ---------------------------------------------------------------------------
\* Two workers under fair scheduling

LiveInputs == Inputs(Payloads({"h1"}, {BodyA}, {TokenA}, {TRUE}, {0}), {"h1"}, {TokenA})

\* the server late in the day: the clock leaves room for two more calls that
\* read it, and for any number of calls that do not
InitLive == InitBuild(FileList(<<StartHook>>), "Middleware", MaxTime - 2)

\* the calls of the registry and TriggerHook, made by any worker at any time
NextLive ==
    \E w \in Workers :
        \/ \E hook \in LiveInputs.hooks : CallCreateHook(w, hook)
        \/ CreateLock(w)
        \/ CreateBody(w)
        \/ CreatePut(w)
        \/ CreateSave(w)
        \/ \E hook \in LiveInputs.hooks : CallUpdateHook(w, hook)
        \/ UpdateLock(w)
        \/ UpdateBody(w)
        \/ UpdatePut(w)
        \/ UpdateSave(w)
        \/ \E id \in LiveInputs.ids : CallDeleteHook(w, id)
        \/ DeleteLock(w)
        \/ DeleteBody(w)
        \/ DeletePut(w)
        \/ DeleteSave(w)
        \/ \E id \in LiveInputs.ids : CallGetHook(w, id)
        \/ GetRLock(w)
        \/ GetRead(w)
        \/ CallGetAllHooks(w)
        \/ GetAllRLock(w)
        \/ GetAllRead(w)
        \/ \E id \in LiveInputs.ids, token \in LiveInputs.tokens : CallTriggerHook(w, id, token)
        \/ ValidateRLock(w)
        \/ ValidateRead(w)
        \/ TriggerRLock(w)
        \/ TriggerRead(w)
        \/ TriggerWrite(w)

\* r.mu.Lock() and r.mu.RLock(): the steps that can wait
Acquire(w) ==
    \/ CreateLock(w) \/ UpdateLock(w) \/ DeleteLock(w)
    \/ GetRLock(w) \/ GetAllRLock(w) \/ ValidateRLock(w) \/ TriggerRLock(w)

\* the statements between two lock operations and up to the return: a
\* goroutine that can run them is scheduled
Proceed(w) ==
    \/ CreateBody(w) \/ CreatePut(w) \/ CreateSave(w)
    \/ UpdateBody(w) \/ UpdatePut(w) \/ UpdateSave(w)
    \/ DeleteBody(w) \/ DeletePut(w) \/ DeleteSave(w)
    \/ GetRead(w) \/ GetAllRead(w)
    \/ ValidateRead(w) \/ TriggerRead(w) \/ TriggerWrite(w)

\* the scheduler runs every goroutine that can run, and sync.RWMutex lets no
\* waiter starve: a waiting Lock keeps new readers out, Unlock wakes the
\* waiting readers first
LiveSpec ==
    /\ InitLive
    /\ [][NextLive]_vars
    /\ \A w \in Workers : WF_vars(Proceed(w)) /\ SF_vars(Acquire(w))

HoldsLock(w) == mu.writer = w \/ w \in mu.readers

\* where a call is between acquiring the lock and releasing it
LockedPcs == {"Create_cs", "Create_put", "Create_save",
              "Update_cs", "Update_put", "Update_save",
              "Delete_cs", "Delete_put", "Delete_save",
              "G_read", "A_read", "V_read", "T_read"}

\* C30: the registry never deadlocks. A worker holds the lock only between
\* an acquisition and the release of the same registry call: none before a
\* call, none after any return (also with an error), none while it waits
\* for the lock, none while TriggerHook writes the flag file. And under fair
\* scheduling every call that was issued returns.
C30_NoDeadlock ==
    /\ [](\A w \in Workers : HoldsLock(w) => pc[w] \in LockedPcs)
    /\ \A w \in Workers : (~Idle(w)) ~> (pc[w] = "done")

\* one worker waits for the write lock while the other reads, after a save
\* that failed and a trigger that wrote its flag file
C30_Witness ==
    /\ pc["w1"] \in {"Create_lock", "Update_lock", "Delete_lock"}
    /\ "w2" \in mu.readers
    /\ file = FilePartial
    /\ flags # {}

====
